---- MODULE Spec2Model ----
(***************************************************************************)
(* The field registry of include/field_code.h: the fourteen field codes,   *)
(* the surface names, and the two lookups ReturnFieldName and              *)
(* IsDistanceField, called by a number of concurrent callers.              *)
(*                                                                         *)
(* The header holds the constants and the two prototypes.  The bodies of   *)
(* the two functions and mrisurf.h (which the header expects to define     *)
(* GRAYMID_NAME) are not in the header; what the model says about them     *)
(* follows the specification of the registry.                              *)
(***************************************************************************)
EXTENDS Integers, FiniteSets, Sequences, TLC

(* ------------------------------------------------------------------ *)
(* Bounds of the model.                                                 *)
(* ------------------------------------------------------------------ *)
\* number of concurrent callers of the registry
NumCallers == 2
\* how far below 0 and above NUMBER_OF_VECTORIAL_FIELDS - 1 an argument may lie
Slack == 1

(* ------------------------------------------------------------------ *)
(* C values: a char * is NULL or points to a string literal, an int is *)
(* an int.  One record shape for all, so that any two can be compared. *)
(* ------------------------------------------------------------------ *)
NULL == [kind |-> "NULL", str |-> "", int |-> 0]

StringLiteral(s) == [kind |-> "string", str |-> s, int |-> 0]

IntValue(i) == [kind |-> "int", str |-> "", int |-> i]

\* the outcome of a call with a code outside the enumeration (a fatal
\* contract violation: the call does not return)
InvalidFieldCode == [kind |-> "InvalidFieldCode", str |-> "", int |-> 0]

\* no call has completed yet
NoValue == [kind |-> "none", str |-> "", int |-> 0]

(* ------------------------------------------------------------------ *)
(* field_code.h, lines 4-20: the field codes.                          *)
(* ------------------------------------------------------------------ *)
NUMBER_OF_VECTORIAL_FIELDS == 14

INFLATED_CURV_CORR_FRAME == 0
SULC_CORR_FRAME == 1
CURVATURE_CORR_FRAME == 2
GRAYMID_CORR_FRAME == 3
T1MID_CORR_FRAME == 4
T2MID_CORR_FRAME == 5
PDMID_CORR_FRAME == 6
\* variant: the code of the field defined just before is repeated
AMYGDALA_CORR_FRAME_Repeated == PDMID_CORR_FRAME
AMYGDALA_CORR_FRAME == 7
HIPPOCAMPUS_CORR_FRAME == 8
PALLIDUM_CORR_FRAME == 9
PUTAMEN_CORR_FRAME == 10
CAUDATE_CORR_FRAME == 11
LAT_VENTRICLE_CORR_FRAME == 12
\* variant: the last code repeats the one before it
INF_LAT_VENTRICLE_CORR_FRAME_Repeated == LAT_VENTRICLE_CORR_FRAME
INF_LAT_VENTRICLE_CORR_FRAME == 13

\* the field codes in the order of their definition
FieldCodeList ==
  << INFLATED_CURV_CORR_FRAME, SULC_CORR_FRAME, CURVATURE_CORR_FRAME,
     GRAYMID_CORR_FRAME, T1MID_CORR_FRAME, T2MID_CORR_FRAME, PDMID_CORR_FRAME,
     AMYGDALA_CORR_FRAME, HIPPOCAMPUS_CORR_FRAME, PALLIDUM_CORR_FRAME,
     PUTAMEN_CORR_FRAME, CAUDATE_CORR_FRAME, LAT_VENTRICLE_CORR_FRAME,
     INF_LAT_VENTRICLE_CORR_FRAME >>

FieldCodes == { FieldCodeList[i] : i \in DOMAIN FieldCodeList }

(* ------------------------------------------------------------------ *)
(* State.                                                               *)
(* ------------------------------------------------------------------ *)
VARIABLES
  graymid_predefined, \* GRAYMID_NAME was defined before the header is read
  fieldTable,         \* static data: code -> [name, dist]
  pc,                 \* per caller: idle, in a function, returned, aborted
  fn,                 \* per caller: the function called
  arg,                \* per caller: which_field
  ret                 \* per caller: the value the call gave

vars == << graymid_predefined, fieldTable, pc, fn, arg, ret >>

Callers == 1 .. NumCallers

\* the values a variable of the state takes
TypeOK ==
  /\ graymid_predefined \in BOOLEAN
  /\ DOMAIN fieldTable \subseteq Int
  /\ \A c \in DOMAIN fieldTable :
       fieldTable[c].name.kind \in {"NULL", "string"} /\ fieldTable[c].dist \in {0, 1}
  /\ pc \in [Callers -> {"idle", "ReturnFieldName", "IsDistanceField",
                         "returned", "aborted"}]
  /\ fn \in [Callers -> {"none", "ReturnFieldName", "IsDistanceField"}]
  /\ arg \in [Callers -> Int]
  /\ \A p \in Callers :
       ret[p].kind \in {"none", "NULL", "string", "int", "InvalidFieldCode"}

\* the arguments the callers pass: every code, and Slack many on either side
Arguments == (0 - Slack) .. (NUMBER_OF_VECTORIAL_FIELDS - 1 + Slack)

(* ------------------------------------------------------------------ *)
(* field_code.h, lines 22-39: the surface names.                       *)
(* ------------------------------------------------------------------ *)
\* variant: the inflated curvature is given a file name
INFLATED_CURVATURE_NAME_Named == StringLiteral("inflated.H")
INFLATED_CURVATURE_NAME == NULL

\* variant: the name is spelt out
SULC_NAME_Misspelt == StringLiteral("sulcus")
SULC_NAME == StringLiteral("sulc")

\* variant: the curvature is given a file name
CURVATURE_NAME_Named == StringLiteral("curv")
CURVATURE_NAME == NULL

\* the definition mrisurf.h gives, when it was read first
MRISURF_GRAYMID_NAME == StringLiteral("graymid")

\* variant: the header's own definition differs from the one of mrisurf.h
HEADER_GRAYMID_NAME_Other == StringLiteral("gray_mid")

\* the definition of the header itself, line 28
HEADER_GRAYMID_NAME == StringLiteral("graymid")

\* #ifndef GRAYMID_NAME ... #endif: an earlier definition is kept
GRAYMID_NAME ==
  IF graymid_predefined THEN MRISURF_GRAYMID_NAME ELSE HEADER_GRAYMID_NAME

T1MID_NAME == StringLiteral("T1mid")
\* variant: the line above copied without changing the string
T2MID_NAME_Copied == T1MID_NAME
T2MID_NAME == StringLiteral("T2mid")
PDMID_NAME == StringLiteral("PDmid")
AMYGDALA_DIST_NAME == StringLiteral("amygdala_dist")
HIPPOCAMPUS_DIST_NAME == StringLiteral("hippocampus_dist")
PALLIDUM_DIST_NAME == StringLiteral("pallidum_dist")
PUTAMEN_DIST_NAME == StringLiteral("putamen_dist")
CAUDATE_DIST_NAME == StringLiteral("caudate_dist")
LAT_VENTRICLE_DIST_NAME == StringLiteral("latventricle_dist")
INF_LAT_VENTRICLE_DIST_NAME == StringLiteral("inflatventricle_dist")

(* ------------------------------------------------------------------ *)
(* The registry: each code with its name and its classification.       *)
(* ------------------------------------------------------------------ *)
\* the name of a field code: the name macro that goes with the code macro
SurfaceName(c) ==
  CASE c = INFLATED_CURV_CORR_FRAME -> INFLATED_CURVATURE_NAME
    [] c = SULC_CORR_FRAME -> SULC_NAME
    [] c = CURVATURE_CORR_FRAME -> CURVATURE_NAME
    [] c = GRAYMID_CORR_FRAME -> GRAYMID_NAME
    [] c = T1MID_CORR_FRAME -> T1MID_NAME
    [] c = T2MID_CORR_FRAME -> T2MID_NAME
    [] c = PDMID_CORR_FRAME -> PDMID_NAME
    [] c = AMYGDALA_CORR_FRAME -> AMYGDALA_DIST_NAME
    [] c = HIPPOCAMPUS_CORR_FRAME -> HIPPOCAMPUS_DIST_NAME
    [] c = PALLIDUM_CORR_FRAME -> PALLIDUM_DIST_NAME
    [] c = PUTAMEN_CORR_FRAME -> PUTAMEN_DIST_NAME
    [] c = CAUDATE_CORR_FRAME -> CAUDATE_DIST_NAME
    [] c = LAT_VENTRICLE_CORR_FRAME -> LAT_VENTRICLE_DIST_NAME
    [] c = INF_LAT_VENTRICLE_CORR_FRAME -> INF_LAT_VENTRICLE_DIST_NAME

\* the fields that hold the distance to a subcortical structure
DistanceFields ==
  { AMYGDALA_CORR_FRAME, HIPPOCAMPUS_CORR_FRAME, PALLIDUM_CORR_FRAME,
    PUTAMEN_CORR_FRAME, CAUDATE_CORR_FRAME, LAT_VENTRICLE_CORR_FRAME,
    INF_LAT_VENTRICLE_CORR_FRAME }

\* the table as the program image holds it
FieldRegistry ==
  [ c \in FieldCodes |->
      [ name |-> SurfaceName(c),
        dist |-> IF c \in DistanceFields THEN 1 ELSE 0 ] ]

(* ------------------------------------------------------------------ *)
(* The two lookups.                                                     *)
(* ------------------------------------------------------------------ *)
\* variant: a code outside the enumeration falls through to a NULL name
ReturnFieldName_DefaultNull(which_field) ==
  IF which_field \in DOMAIN fieldTable
    THEN fieldTable[which_field].name
    ELSE NULL

\* char *ReturnFieldName(int which_field)
ReturnFieldName(which_field) ==
  IF which_field \in DOMAIN fieldTable
    THEN fieldTable[which_field].name
    ELSE InvalidFieldCode

\* variant: a code outside the enumeration falls through to 0
IsDistanceField_DefaultFalse(which_field) ==
  IF which_field \in DOMAIN fieldTable
    THEN IntValue(fieldTable[which_field].dist)
    ELSE IntValue(0)

\* int IsDistanceField(int which_field)
IsDistanceField(which_field) ==
  IF which_field \in DOMAIN fieldTable
    THEN IntValue(fieldTable[which_field].dist)
    ELSE InvalidFieldCode

\* variant: a lookup clears the entry it has read
StaticDataAfterLookup_Clears(table, which_field) ==
  IF which_field \in DOMAIN table
    THEN [table EXCEPT ![which_field] = [name |-> NULL, dist |-> 0]]
    ELSE table

\* the static data after a lookup of which_field: a lookup writes nothing
StaticDataAfterLookup(table, which_field) == table

(* ------------------------------------------------------------------ *)
(* The callers.                                                         *)
(* ------------------------------------------------------------------ *)
\* a fatal contract violation ends the process: no caller runs on
Halted == \E p \in Callers : pc[p] = "aborted"

Init ==
  /\ graymid_predefined \in BOOLEAN
  /\ fieldTable = FieldRegistry
  /\ pc = [p \in Callers |-> "idle"]
  /\ fn = [p \in Callers |-> "none"]
  /\ arg = [p \in Callers |-> 0]
  /\ ret = [p \in Callers |-> NoValue]

CallReturnFieldName(p) ==
  /\ ~Halted
  /\ pc[p] = "idle"
  /\ \E c \in Arguments : arg' = [arg EXCEPT ![p] = c]
  /\ pc' = [pc EXCEPT ![p] = "ReturnFieldName"]
  /\ fn' = [fn EXCEPT ![p] = "ReturnFieldName"]
  /\ UNCHANGED << graymid_predefined, fieldTable, ret >>

CallIsDistanceField(p) ==
  /\ ~Halted
  /\ pc[p] = "idle"
  /\ \E c \in Arguments : arg' = [arg EXCEPT ![p] = c]
  /\ pc' = [pc EXCEPT ![p] = "IsDistanceField"]
  /\ fn' = [fn EXCEPT ![p] = "IsDistanceField"]
  /\ UNCHANGED << graymid_predefined, fieldTable, ret >>

\* the outcome of a call: it returns a value, or it ends the process
Complete(p, value) ==
  /\ ret' = [ret EXCEPT ![p] = value]
  /\ pc' = [pc EXCEPT ![p] =
              IF value = InvalidFieldCode THEN "aborted" ELSE "returned"]
  /\ fieldTable' = StaticDataAfterLookup(fieldTable, arg[p])
  /\ UNCHANGED << graymid_predefined, fn, arg >>

RunReturnFieldName(p) ==
  /\ ~Halted
  /\ pc[p] = "ReturnFieldName"
  /\ Complete(p, ReturnFieldName(arg[p]))

RunIsDistanceField(p) ==
  /\ ~Halted
  /\ pc[p] = "IsDistanceField"
  /\ Complete(p, IsDistanceField(arg[p]))

\* the caller has used the result and is ready for its next call
Resume(p) ==
  /\ ~Halted
  /\ pc[p] = "returned"
  /\ pc' = [pc EXCEPT ![p] = "idle"]
  /\ fn' = [fn EXCEPT ![p] = "none"]
  /\ arg' = [arg EXCEPT ![p] = 0]
  /\ ret' = [ret EXCEPT ![p] = NoValue]
  /\ UNCHANGED << graymid_predefined, fieldTable >>

Next ==
  \E p \in Callers :
    \/ CallReturnFieldName(p)
    \/ CallIsDistanceField(p)
    \/ RunReturnFieldName(p)
    \/ RunIsDistanceField(p)
    \/ Resume(p)

Spec == Init /\ [][Next]_vars

(* ------------------------------------------------------------------ *)
(* Properties.                                                          *)
(* ------------------------------------------------------------------ *)
\* caller p called f and the call is over (it returned, or it ended the process)
Finished(p, f) == fn[p] = f /\ pc[p] \in {"returned", "aborted"}

\* caller p called f with code c and holds the value v it returned
Got(p, f, c, v) ==
  pc[p] = "returned" /\ fn[p] = f /\ arg[p] = c /\ ret[p] = v

\* C1: for every code c in 0..13, IsDistanceField(c) is true (non-zero) if and
\* only if 7 <= c <= 13, and the per-code table entry agrees with that range
\* test for all 14 codes.
C1_DistanceIffRange ==
  /\ \A c \in 0 .. 13 :
       /\ c \in DOMAIN fieldTable
       /\ (fieldTable[c].dist # 0) <=> (7 <= c /\ c <= 13)
  /\ \A p \in Callers :
       (Finished(p, "IsDistanceField") /\ arg[p] \in 0 .. 13) =>
         /\ pc[p] = "returned"
         /\ ret[p].kind = "int"
         /\ (ret[p].int # 0) <=> (7 <= arg[p] /\ arg[p] <= 13)

\* two callers hold the answers on either side of the boundary: 6 no, 7 yes
C1_Witness ==
  \E p, q \in Callers :
    /\ Got(p, "IsDistanceField", 6, IntValue(0))
    /\ Got(q, "IsDistanceField", 7, IntValue(1))

\* the names of the table of the specification, for the codes that have one
NamesOfTheTable ==
  ( 1 :> "sulc" @@ 3 :> "graymid" @@ 4 :> "T1mid" @@ 5 :> "T2mid" @@
    6 :> "PDmid" @@ 7 :> "amygdala_dist" @@ 8 :> "hippocampus_dist" @@
    9 :> "pallidum_dist" @@ 10 :> "putamen_dist" @@ 11 :> "caudate_dist" @@
    12 :> "latventricle_dist" @@ 13 :> "inflatventricle_dist" )

\* C2: for every code other than 0 and 2, ReturnFieldName(code) returns
\* exactly the string the table gives for that code.
C2_NamesAsInTable ==
  \A p \in Callers :
    (Finished(p, "ReturnFieldName") /\ arg[p] \in DOMAIN NamesOfTheTable) =>
      /\ pc[p] = "returned"
      /\ ret[p] = StringLiteral(NamesOfTheTable[arg[p]])

\* the first and the last named code have been asked for and answered
C2_Witness ==
  \E p, q \in Callers :
    /\ Got(p, "ReturnFieldName", 1, StringLiteral("sulc"))
    /\ Got(q, "ReturnFieldName", 13, StringLiteral("inflatventricle_dist"))

\* C3: ReturnFieldName(0) and ReturnFieldName(2) both return the "no name"
\* value (NULL), and no other code in 0..13 does.
C3_NoNameExactlyFor0And2 ==
  \A p \in Callers :
    (Finished(p, "ReturnFieldName") /\ arg[p] \in 0 .. 13) =>
      /\ pc[p] = "returned"
      /\ (ret[p] = NULL) <=> (arg[p] \in {0, 2})

\* both directly computed fields have been asked for and answered with NULL
C3_Witness ==
  \E p, q \in Callers :
    /\ Got(p, "ReturnFieldName", 0, NULL)
    /\ Got(q, "ReturnFieldName", 2, NULL)

ClassOf(name, dist) ==
  CASE name = NULL /\ dist = 0 -> "no name, not distance"
    [] name # NULL /\ dist = 0 -> "named, not distance"
    [] name # NULL /\ dist # 0 -> "named, distance"
    [] OTHER -> "no name, distance"

\* the class the specification gives a code
ClassOfTheTable(c) ==
  CASE c \in {0, 2} -> "no name, not distance"
    [] c \in {1, 3, 4, 5, 6} -> "named, not distance"
    [] c \in 7 .. 13 -> "named, distance"
    [] OTHER -> "none"

\* C6: the codes 0..13 fall into exactly three classes, {0,2} without a name
\* and not distance, {1,3,4,5,6} named and not distance, {7..13} named and
\* distance: each code is in the class named for it and in no other, and no
\* distance field is without a name.
C6_ThreeClasses ==
  /\ DOMAIN fieldTable = 0 .. 13
  /\ \A c \in 0 .. 13 :
       ClassOf(fieldTable[c].name, fieldTable[c].dist) = ClassOfTheTable(c)
  /\ \A p, q \in Callers :
       ( /\ pc[p] = "returned" /\ fn[p] = "ReturnFieldName"
         /\ pc[q] = "returned" /\ fn[q] = "IsDistanceField"
         /\ arg[p] = arg[q] ) =>
         ClassOf(ret[p], ret[q].int) = ClassOfTheTable(arg[p])

\* code 9 has been asked for both ways: "pallidum_dist", and a distance field
C6_Witness ==
  \E p, q \in Callers :
    /\ Got(p, "ReturnFieldName", 9, StringLiteral("pallidum_dist"))
    /\ Got(q, "IsDistanceField", 9, IntValue(1))

\* what a single call of f with code c gives when nothing else has run
IsolatedCall(f, c) ==
  IF c \notin DOMAIN FieldRegistry
    THEN InvalidFieldCode
    ELSE IF f = "ReturnFieldName"
           THEN FieldRegistry[c].name
           ELSE IntValue(FieldRegistry[c].dist)

C8_CodesAreZeroToThirteen ==
  /\ Len(FieldCodeList) = 14
  /\ \A i, j \in DOMAIN FieldCodeList :
       i # j => FieldCodeList[i] # FieldCodeList[j]
  /\ FieldCodes = 0 .. (NUMBER_OF_VECTORIAL_FIELDS - 1)
  /\ Cardinality(FieldCodes) = NUMBER_OF_VECTORIAL_FIELDS
  /\ NUMBER_OF_VECTORIAL_FIELDS - 1 = 13
  /\ \A c \in FieldCodes : 0 <= c /\ c <= 13
  /\ DOMAIN fieldTable = FieldCodes

\* the smallest and the largest code have both been looked up and answered
C8_Witness ==
  \E p, q \in Callers :
    /\ Got(p, "IsDistanceField", INFLATED_CURV_CORR_FRAME, IntValue(0))
    /\ Got(q, "IsDistanceField", NUMBER_OF_VECTORIAL_FIELDS - 1, IntValue(1))

C10_NamesInjective ==
  /\ LET named == { c \in DOMAIN fieldTable : fieldTable[c].name # NULL }
     IN  Cardinality({ fieldTable[c].name : c \in named }) = Cardinality(named)
  /\ \A p, q \in Callers :
       ( /\ pc[p] = "returned" /\ fn[p] = "ReturnFieldName"
         /\ pc[q] = "returned" /\ fn[q] = "ReturnFieldName"
         /\ arg[p] # arg[q] /\ ret[p] # NULL /\ ret[q] # NULL ) =>
         ret[p] # ret[q]

\* the names of codes 4 and 5 are both held, and differ
C10_Witness ==
  \E p, q \in Callers :
    /\ Got(p, "ReturnFieldName", 4, StringLiteral("T1mid"))
    /\ Got(q, "ReturnFieldName", 5, StringLiteral("T2mid"))

====
